---- MODULE Spec2Model ----
(***************************************************************************)
(* Tax qualification store of tribunsys: the single-record service         *)
(* (services/taxService.py) and the bulk import (services/                 *)
(* massiveLoadService.py) over the shared collections "datosTributarios"   *)
(* and "usuarios".                                                         *)
(*                                                                         *)
(* Conventions                                                             *)
(*  - decimal amounts and factors are kept in tenths: Decimal(1, 2) is 1.2 *)
(*  - a Python value that reaches the store as clienteId is a record       *)
(*    [t, s, e]: a str (t = "str", s its text as a sequence of pieces), or *)
(*    None, or a tuple (t = "tuple", e its elements); the store keeps a    *)
(*    tuple as an array (t = "array")                                      *)
(*  - document ids are the positions 1..Len(datos): the store never drops  *)
(*    a document, and a new one gets the next position                     *)
(*  - the connection guard of requires_connection is taken as passed       *)
(*  - result is what the last call returned, with the id of the document  *)
(*    the call was about; carga is the table and the failing store calls   *)
(*    of the last import_data call, and what its progress callback got,    *)
(*    or the table of the last validate_all_clientes call                  *)
(*  - subsidios is the table "subsidios" of the local database, id |-> row *)
(*  - hilos holds the calls in progress when two calls run at once: the    *)
(*    position of each and what it has read so far                         *)
(***************************************************************************)
EXTENDS Integers, Sequences, FiniteSets, TLC

VARIABLES datos, usuarios, now, result, carga, subsidios, hilos

vars == <<datos, usuarios, now, result, carga, subsidios, hilos>>

(***************************************************************************)
(* Bounds of the model                                                     *)
(***************************************************************************)
MaxDocs == 3
MaxClock == 3
MaxFilasServicio == 1
MaxRows == 2
MaxCargas == 1
MaxValidar == 3
MaxSubsidios == 2
MaxFilasCSV == 2
MaxGuardados == 1
MaxDecimo == 4
MaxCeros == 3
MaxCola == 3

(***************************************************************************)
(* Program constants                                                       *)
(***************************************************************************)
NUM_FACTORES == 19
FACTOR_SUM_START == 8
FACTOR_SUM_END == 19

Decimal(ent, dec) == ent * 10 + dec

(***************************************************************************)
(* Python values and their truth value                                     *)
(***************************************************************************)
PyNone == [t |-> "none", s |-> <<>>, e |-> <<>>]
PyStr(piezas) == [t |-> "str", s |-> piezas, e |-> <<>>]
PyTuple(elems) == [t |-> "tuple", s |-> <<>>, e |-> elems]

\* bool(v): None and "" are false, a tuple is false only when it is empty
Truthy(v) ==
    CASE v.t = "none" -> FALSE
      [] v.t = "str" -> Len(v.s) > 0
      [] OTHER -> Len(v.e) > 0

\* the store's encoding of a value: str and None as they are, a tuple (or
\* list) as an array of its encoded elements
EncodeValue(v) ==
    IF v.t = "tuple" THEN [v EXCEPT !.t = "array"] ELSE v

(***************************************************************************)
(* RUTs, as sequences of characters                                        *)
(***************************************************************************)
RUT_CLIENTE == <<"1", "2", "3", "4", "5", "6", "7", "8", "-", "5">>
RUT_ANALISTA == <<"2", "1", "2", "3", "2", "5", "3", "5", "-", "K">>
RUT_DV_MALO == <<"1", "2", "3", "4", "5", "6", "7", "8", "-", "9">>

(***************************************************************************)
(* The parties collection ("usuarios"): document id |-> document           *)
(***************************************************************************)
UsuariosIniciales ==
    [id \in {"c1", "a1", "a2", "adm"} |->
        CASE id = "c1" -> [rut |-> RUT_CLIENTE, rol |-> "cliente"]
          [] id = "a1" -> [rut |-> RUT_ANALISTA, rol |-> "analista_mercado"]
          [] id = "a2" -> [rut |-> <<"7", "6", "5", "4", "3", "2", "1", "-", "6">>,
                           rol |-> "analista_mercado"]
          [] OTHER -> [rut |-> <<"1", "2", "3", "4", "5", "6", "7", "-", "4">>,
                       rol |-> "administrador"]]

(***************************************************************************)
(* utils/validators.py                                                     *)
(***************************************************************************)
\* A float of the form is a double close to a whole number of tenths: the
\* pair [k, d] stands for k/10 + d * u, with u = 2^-56 / 5.  k/10 is
\* k * 2^55 units, and the doubles of [2^e, 2^(e+1)) are the multiples of
\* 5 * 2^(e+4) units.
\* 2^55 modulo m, as (2^11)^5
Pot55Mod(m) ==
    LET a == 2048 % m
        a2 == (a * a) % m
        a4 == (a2 * a2) % m
    IN  (a4 * a) % m

\* the distance between the doubles around n/10 + e * u, for n >= 1
Ulp(n, e) ==
    LET desde(t) == n > t \/ (n = t /\ e >= 0)
    IN  IF n <= 1 THEN 5
        ELSE IF n = 2 THEN 10
        ELSE IF ~desde(5) THEN 20
        ELSE IF ~desde(10) THEN 40
        ELSE IF ~desde(20) THEN 80
        ELSE IF ~desde(40) THEN 160
        ELSE IF ~desde(80) THEN 320
        ELSE 640

\* the double nearest to n/10 + e * u, ties to the even one
RedondearFloat(n, e) ==
    IF n = 0 THEN [k |-> 0, d |-> 0]
    ELSE LET U == Ulp(n, e)
             x == (n * Pot55Mod(2 * U) + e) % (2 * U)
             r == x % U
         IN  IF r = 0 THEN [k |-> n, d |-> e]
             ELSE IF 2 * r < U \/ (2 * r = U /\ x < U)
             THEN [k |-> n, d |-> e - r]
             ELSE [k |-> n, d |-> e + U - r]

\* float(value) for a value of the tenths grid
float(value) == RedondearFloat(value, 0)

\* total += value
SumaFloat(a, b) == RedondearFloat(a.k + b.k, a.d + b.d)

\* the loop of validate_factor_sum: total after the keys start..j, added in
\* this order
RECURSIVE TotalFloat(_, _, _)
TotalFloat(factors, start, j) ==
    IF j < start THEN [k |-> 0, d |-> 0]
    ELSE LET previo == TotalFloat(factors, start, j - 1)
         IN  IF j \in DOMAIN factors
             THEN SumaFloat(previo, float(factors[j])) ELSE previo

\* total > 1.0
MayorQueUno(total) == total.k > 10 \/ (total.k = 10 /\ total.d > 0)

RECURSIVE SumaVentana(_, _, _)
SumaVentana(factors, i, end) ==
    IF i > end THEN 0
    ELSE (IF i \in DOMAIN factors THEN factors[i] ELSE 0)
         + SumaVentana(factors, i + 1, end)

\* a window check that validates the entries and forgets the total
validate_factor_sum_sin_total(factors, start, end) ==
    LET presentes == {i \in start..end : i \in DOMAIN factors}
        malos == {i \in presentes : factors[i] < 0 \/ factors[i] > Decimal(1, 0)}
    IN  IF malos # {}
        THEN [ok |-> FALSE, motivo |-> "rango",
              indice |-> CHOOSE i \in malos : \A j \in malos : i <= j,
              total |-> 0]
        ELSE [ok |-> TRUE, motivo |-> "ok", indice |-> 0,
              total |-> SumaVentana(factors, start, end)]

\* validate_factor_sum(factors, start, end): factors is the dict
\* {factor_i: value}, here the function i |-> value
validate_factor_sum(factors, start, end) ==
    LET presentes == {i \in start..end : i \in DOMAIN factors}
        malos == {i \in presentes : factors[i] < 0 \/ factors[i] > Decimal(1, 0)}
        total == TotalFloat(factors, start, end)
    IN  IF malos # {}
        THEN [ok |-> FALSE, motivo |-> "rango",
              indice |-> CHOOSE i \in malos : \A j \in malos : i <= j,
              total |-> [k |-> 0, d |-> 0]]
        ELSE IF MayorQueUno(total)
        THEN [ok |-> FALSE, motivo |-> "suma", indice |-> 0, total |-> total]
        ELSE [ok |-> TRUE, motivo |-> "ok", indice |-> 0, total |-> total]

\* clean_rut(rut): without "." and "-", in upper case
Upper(c) == IF c = "k" THEN "K" ELSE c

clean_rut(rut) ==
    LET sin == SelectSeq(rut, LAMBDA c : c \notin {".", "-"})
    IN  [i \in 1..Len(sin) |-> Upper(sin[i])]

Digitos == <<"0", "1", "2", "3", "4", "5", "6", "7", "8", "9">>

isdigit(txt) ==
    Len(txt) > 0 /\ \A i \in 1..Len(txt) : \E d \in 1..10 : Digitos[d] = txt[i]

int(c) == (CHOOSE d \in 1..10 : Digitos[d] = c) - 1

\* sum(d * factors[i % 6] for i, d in enumerate(reversed(rut_number)))
RECURSIVE SumaRut(_, _)
SumaRut(rut_number, i) ==
    IF i >= Len(rut_number) THEN 0
    ELSE int(rut_number[Len(rut_number) - i]) * (<<2, 3, 4, 5, 6, 7>>[(i % 6) + 1])
         + SumaRut(rut_number, i + 1)

\* a check digit whose weights run over the digits from left to right
calculate_rut_dv_sin_reversed(rut_number) ==
    LET al_reves == [i \in 1..Len(rut_number) |->
                        rut_number[Len(rut_number) + 1 - i]]
        dv == 11 - (SumaRut(al_reves, 0) % 11)
    IN  IF dv = 11 THEN "0"
        ELSE IF dv = 10 THEN "K"
        ELSE Digitos[dv + 1]

calculate_rut_dv(rut_number) ==
    LET dv == 11 - (SumaRut(rut_number, 0) % 11)
    IN  IF dv = 11 THEN "0"
        ELSE IF dv = 10 THEN "K"
        ELSE Digitos[dv + 1]

validate_rut(rut) ==
    LET rut_clean == clean_rut(rut)
        rut_number == SubSeq(rut_clean, 1, Len(rut_clean) - 1)
        dv_provided == rut_clean[Len(rut_clean)]
    IN  IF Len(rut) = 0 THEN [ok |-> FALSE, motivo |-> "vacio"]
        ELSE IF Len(rut_clean) < 2 THEN [ok |-> FALSE, motivo |-> "corto"]
        ELSE IF ~isdigit(rut_number) THEN [ok |-> FALSE, motivo |-> "no_numerico"]
        ELSE IF Len(rut_number) < 7 \/ Len(rut_number) > 8
        THEN [ok |-> FALSE, motivo |-> "longitud"]
        ELSE IF dv_provided # calculate_rut_dv(rut_number)
        THEN [ok |-> FALSE, motivo |-> "dv"]
        ELSE [ok |-> TRUE, motivo |-> "ok"]

(***************************************************************************)
(* utils/csvValidator.py                                                   *)
(***************************************************************************)
TIPOS_IMPUESTO_VALIDOS == {"Renta", "IVA", "Retenciones", "Patente", "Timbre"}
PAISES_VALIDOS == {"Chile", "Peru", "Colombia"}

\* _validate_data_types: a cell that is not a number is coerced to NaN and
\* the table rejected
_validate_data_types(df) == \A k \in 1..Len(df) : df[k].numerico

\* the checks of _validate_data_content on one row: TRUE iff row_errors
\* stays empty
FilaSinErrores(row) ==
    /\ validate_rut(row.cliente_rut).ok
    /\ ~(row.monto_declarado <= 0)
    /\ row.tipo_impuesto \in TIPOS_IMPUESTO_VALIDOS
    /\ row.pais \in PAISES_VALIDOS
    /\ \A i \in 1..NUM_FACTORES :
          0 <= row.factores[i] /\ row.factores[i] <= Decimal(1, 0)
    /\ validate_factor_sum([i \in FACTOR_SUM_START..FACTOR_SUM_END |-> row.factores[i]],
                           FACTOR_SUM_START, FACTOR_SUM_END).ok

_validate_data_content(df) == \A k \in 1..Len(df) : FilaSinErrores(df[k])

\* validate_file, on a table that has the required columns
validate_file(df) ==
    /\ Len(df) > 0
    /\ _validate_data_types(df)
    /\ _validate_data_content(df)

(***************************************************************************)
(* services/taxService.py                                                  *)
(***************************************************************************)
\* the fields _validar_datos requires, and whether the value given is falsy
CampoFalta(d, campo) ==
    CASE campo = "fecha_declaracion" -> FALSE
      [] campo = "tipo_impuesto" -> d.tipo_impuesto = ""
      [] campo = "pais" -> d.pais = ""
      [] campo = "monto_declarado" -> d.monto_declarado = 0
      [] OTHER -> Len(d.factores) = 0

_validar_datos(d) ==
    LET requeridos == <<"fecha_declaracion", "tipo_impuesto", "pais",
                        "monto_declarado", "factores">>
        faltan == {k \in 1..Len(requeridos) : CampoFalta(d, requeridos[k])}
        fuera == {i \in 1..Len(d.factores) :
                    ~(0 <= d.factores[i] /\ d.factores[i] <= Decimal(1, 0))}
        suma == validate_factor_sum(d.factores, FACTOR_SUM_START, FACTOR_SUM_END)
    IN  IF faltan # {}
        THEN [ok |-> FALSE, motivo |-> "requerido",
              indice |-> CHOOSE k \in faltan : \A j \in faltan : k <= j]
        ELSE IF d.monto_declarado <= 0
        THEN [ok |-> FALSE, motivo |-> "monto", indice |-> 0]
        ELSE IF Len(d.factores) # NUM_FACTORES
        THEN [ok |-> FALSE, motivo |-> "num_factores", indice |-> 0]
        ELSE IF fuera # {}
        THEN [ok |-> FALSE, motivo |-> "rango",
              indice |-> CHOOSE i \in fuera : \A j \in fuera : i <= j]
        ELSE IF ~suma.ok
        THEN [ok |-> FALSE, motivo |-> suma.motivo, indice |-> suma.indice]
        ELSE [ok |-> TRUE, motivo |-> "ok", indice |-> 0]

\* {f"factor_{i}": float(factores[i-1]) for i in range(1, 20)}
_preparar_factores(factores) == [i \in 1..NUM_FACTORES |-> factores[i]]

\* strftime("%Y-%m-%d") of a date or timestamp: the day, without the time
strftime(fecha) == fecha.dia

\* f"Cliente con RUT {rut} no está registrado en el sistema"
MsgNoRegistrado(rut) ==
    PyStr(<<"Cliente con RUT ">> \o rut \o <<" no esta registrado en el sistema">>)

\* f"Error al buscar cliente {rut}: {str(e)}"
MsgErrorBusqueda(rut) ==
    PyStr(<<"Error al buscar cliente ">> \o rut \o <<": error">>)

\* _validate_cliente(rut): the pair (cliente_id, error) of the first party
\* whose rut is the given one
_validate_cliente(rut, falla) ==
    LET hallados == {id \in DOMAIN usuarios : usuarios[id].rut = rut}
    IN  IF falla THEN PyTuple(<<PyNone, MsgErrorBusqueda(rut)>>)
        ELSE IF hallados # {}
        THEN PyTuple(<<PyStr(<<CHOOSE id \in hallados : TRUE>>), PyNone>>)
        ELSE PyTuple(<<PyNone, MsgNoRegistrado(rut)>>)

\* buscar_conflicto_oficial: the ids of the active records of the official
\* channel with the given client, date and tax type (the query keeps one)
buscar_conflicto_oficial(cliente_id, fecha_str, tipo_impuesto) ==
    {id \in 1..Len(datos) :
        /\ datos[id].clienteId = EncodeValue(cliente_id)
        /\ datos[id].fechaDeclaracion = fecha_str
        /\ datos[id].tipoImpuesto = tipo_impuesto
        /\ datos[id].esLocal = FALSE
        /\ datos[id].activo = TRUE}

Resultado(op, success, motivo, id) ==
    [op |-> op, success |-> success, motivo |-> motivo, id |-> id,
     created |-> 0, updated |-> 0, errors |-> <<>>, total |-> 0,
     lista |-> {}]

\* the returned dict r with the keys of extra added or replaced
Con(r, extra) ==
    [k \in DOMAIN r \cup DOMAIN extra |->
        IF k \in DOMAIN extra THEN extra[k] ELSE r[k]]

\* the document crear_calificacion writes
CalificacionLocal(d, cliente_id, usuario_id) ==
    [clienteId |-> EncodeValue(cliente_id),
     usuarioCargaId |-> usuario_id,
     propietarioRegistroId |-> usuario_id,
     fechaDeclaracion |-> strftime(d.fecha_declaracion),
     tipoImpuesto |-> d.tipo_impuesto,
     pais |-> d.pais,
     montoDeclarado |-> d.monto_declarado,
     factores |-> _preparar_factores(d.factores),
     subsidiosAplicados |-> d.subsidios_aplicados,
     esLocal |-> TRUE,
     fechaCreacion |-> now,
     fechaModificacion |-> now,
     activo |-> TRUE,
     fechaEliminacion |-> 0]

\* crear_calificacion(datos, usuario_id); falla names the call that raises
\* in this call, if any: a store call, or log_audit ("auditoria"), which
\* stands inside the try block, after the write
crear_calificacion(d, usuario_id, falla) ==
    LET v == _validar_datos(d)
        par == _validate_cliente(d.cliente_id, falla = "clientes")
        cliente_id == par.e[1]
        conflicto == IF falla = "conflicto" THEN {}
                     ELSE buscar_conflicto_oficial(cliente_id,
                              strftime(d.fecha_declaracion), d.tipo_impuesto)
    IN  /\ UNCHANGED <<usuarios, carga, subsidios, hilos>>
        /\ IF ~v.ok
           THEN /\ result' = Resultado("crear", FALSE, v.motivo, 0)
                /\ UNCHANGED <<datos, now>>
           ELSE IF ~Truthy(cliente_id)
           THEN /\ result' = Resultado("crear", FALSE, "cliente_no_registrado", 0)
                /\ UNCHANGED <<datos, now>>
           ELSE IF conflicto # {}
           THEN /\ \E c \in conflicto :
                        result' = Resultado("crear", FALSE, "conflicto", c)
                /\ UNCHANGED <<datos, now>>
           ELSE IF falla = "escritura"
           THEN /\ result' = Resultado("crear", FALSE, "error", 0)
                /\ UNCHANGED <<datos, now>>
           ELSE /\ datos' = Append(datos, CalificacionLocal(d, cliente_id, usuario_id))
                /\ now' = now + 1
                /\ result' = IF falla = "auditoria"
                              THEN Resultado("crear", FALSE, "error_auditoria", 0)
                              ELSE Resultado("crear", TRUE, "ok", Len(datos) + 1)

\* a role check that looks at the owner only
VerificarPermisoSoloPropietario(rol, calificacion, usuario_id) ==
    IF rol = "administrador" THEN "ok"
    ELSE IF calificacion.propietarioRegistroId # usuario_id THEN "permiso"
    ELSE "ok"

\* the role check shared by actualizar_calificacion and eliminar_calificacion:
\* "ok", or the reason of the rejection
VerificarPermiso(rol, calificacion, usuario_id) ==
    IF rol = "administrador" THEN "ok"
    ELSE IF ~calificacion.esLocal THEN "bolsa"
    ELSE IF calificacion.propietarioRegistroId # usuario_id THEN "permiso"
    ELSE "ok"

\* an update that also stamps fechaCreacion
ActualizacionConCreacion(d) ==
    [fechaDeclaracion |-> strftime(d.fecha_declaracion),
     tipoImpuesto |-> d.tipo_impuesto,
     pais |-> d.pais,
     montoDeclarado |-> d.monto_declarado,
     factores |-> _preparar_factores(d.factores),
     subsidiosAplicados |-> d.subsidios_aplicados,
     fechaModificacion |-> now,
     fechaCreacion |-> now]

\* the fields actualizar_calificacion passes to update()
Actualizacion(d) ==
    [fechaDeclaracion |-> strftime(d.fecha_declaracion),
     tipoImpuesto |-> d.tipo_impuesto,
     pais |-> d.pais,
     montoDeclarado |-> d.monto_declarado,
     factores |-> _preparar_factores(d.factores),
     subsidiosAplicados |-> d.subsidios_aplicados,
     fechaModificacion |-> now]

\* document.update(campos): the named fields are replaced, the others kept
Update(doc, campos) ==
    [k \in DOMAIN doc |-> IF k \in DOMAIN campos THEN campos[k] ELSE doc[k]]

actualizar_calificacion(calificacion_id, d, usuario_id, rol, falla) ==
    LET existe == calificacion_id \in 1..Len(datos)
        calificacion_actual == datos[calificacion_id]
        permiso == VerificarPermiso(rol, calificacion_actual, usuario_id)
        v == _validar_datos(d)
    IN  /\ UNCHANGED <<usuarios, carga, subsidios, hilos>>
        /\ IF falla = "lectura"
           THEN /\ result' = Resultado("actualizar", FALSE, "error", calificacion_id)
                /\ UNCHANGED <<datos, now>>
           ELSE IF ~existe
           THEN /\ result' = Resultado("actualizar", FALSE, "no_encontrada", calificacion_id)
                /\ UNCHANGED <<datos, now>>
           ELSE IF permiso # "ok"
           THEN /\ result' = Resultado("actualizar", FALSE, permiso, calificacion_id)
                /\ UNCHANGED <<datos, now>>
           ELSE IF ~v.ok
           THEN /\ result' = Resultado("actualizar", FALSE, v.motivo, calificacion_id)
                /\ UNCHANGED <<datos, now>>
           ELSE IF falla = "escritura"
           THEN /\ result' = Resultado("actualizar", FALSE, "error", calificacion_id)
                /\ UNCHANGED <<datos, now>>
           ELSE /\ datos' = [datos EXCEPT ![calificacion_id] =
                                Update(calificacion_actual, Actualizacion(d))]
                /\ now' = now + 1
                /\ result' = IF falla = "auditoria"
                              THEN Resultado("actualizar", FALSE, "error_auditoria",
                                             calificacion_id)
                              ELSE Resultado("actualizar", TRUE, "ok", calificacion_id)

\* a delete that also touches fechaModificacion
CamposEliminacionConModificacion ==
    [activo |-> FALSE, fechaEliminacion |-> now, fechaModificacion |-> now]

\* the fields eliminar_calificacion passes to update()
CamposEliminacion == [activo |-> FALSE, fechaEliminacion |-> now]

eliminar_calificacion(calificacion_id, usuario_id, rol, falla) ==
    LET existe == calificacion_id \in 1..Len(datos)
        calificacion == datos[calificacion_id]
        permiso == VerificarPermiso(rol, calificacion, usuario_id)
    IN  /\ UNCHANGED <<usuarios, carga, subsidios, hilos>>
        /\ IF falla = "lectura"
           THEN /\ result' = Resultado("eliminar", FALSE, "error", calificacion_id)
                /\ UNCHANGED <<datos, now>>
           ELSE IF ~existe
           THEN /\ result' = Resultado("eliminar", FALSE, "no_encontrada", calificacion_id)
                /\ UNCHANGED <<datos, now>>
           ELSE IF permiso # "ok"
           THEN /\ result' = Resultado("eliminar", FALSE, permiso, calificacion_id)
                /\ UNCHANGED <<datos, now>>
           ELSE IF falla = "escritura"
           THEN /\ result' = Resultado("eliminar", FALSE, "error", calificacion_id)
                /\ UNCHANGED <<datos, now>>
           ELSE /\ datos' = [datos EXCEPT ![calificacion_id] =
                                Update(calificacion, CamposEliminacion)]
                /\ now' = now + 1
                /\ result' = IF falla = "auditoria"
                              THEN Resultado("eliminar", FALSE, "error_auditoria",
                                             calificacion_id)
                              ELSE Resultado("eliminar", TRUE, "ok", calificacion_id)

\* the "%Y-%m-%d" strings of the model in the order the store compares them
DIAS == <<"2024-11-19", "2024-11-20", "2024-11-21">>

Orden(dia) == CHOOSE k \in 1..Len(DIAS) : DIAS[k] = dia

\* the query of listar_calificaciones: the active documents that pass every
\* filter present in filtros
ConsultaListar(filtros) ==
    {id \in 1..Len(datos) :
        /\ datos[id].activo = TRUE
        /\ "fecha_desde" \in DOMAIN filtros =>
               Orden(datos[id].fechaDeclaracion) >= Orden(strftime(filtros.fecha_desde))
        /\ "fecha_hasta" \in DOMAIN filtros =>
               Orden(datos[id].fechaDeclaracion) <= Orden(strftime(filtros.fecha_hasta))
        /\ "tipo_impuesto" \in DOMAIN filtros =>
               datos[id].tipoImpuesto = filtros.tipo_impuesto
        /\ "pais" \in DOMAIN filtros => datos[id].pais = filtros.pais}

\* a listing that shows every local record to every caller
VisibleSinPropietario(data, usuario_id, rol) == TRUE

\* the branch of the loop of listar_calificaciones that appends the document
Visible(data, usuario_id, rol) ==
    LET es_local == data.esLocal
        es_propietario == data.propietarioRegistroId = usuario_id
    IN  IF rol = "administrador" THEN TRUE
        ELSE IF ~es_local THEN TRUE
        ELSE es_propietario

\* listar_calificaciones(usuario_id, rol, filtros): the documents returned,
\* each with its id; falla is TRUE when the query raises
listar_calificaciones(usuario_id, rol, filtros, falla) ==
    LET docs == IF falla THEN {} ELSE ConsultaListar(filtros)
        calificaciones == {[_id |-> id, data |-> datos[id]] :
                              id \in {i \in docs : Visible(datos[i], usuario_id, rol)}}
    IN  /\ result' = [Resultado("listar", ~falla, "ok", 0) EXCEPT
                         !.lista = calificaciones]
        /\ UNCHANGED <<datos, usuarios, now, carga, subsidios, hilos>>

(***************************************************************************)
(* services/massiveLoadService.py                                          *)
(***************************************************************************)
\* validate_cliente(rut): the pair (cliente_id, error) of the first party
\* with the given rut and rol "cliente"
validate_cliente(rut, falla) ==
    LET hallados == {id \in DOMAIN usuarios :
                        usuarios[id].rut = rut /\ usuarios[id].rol = "cliente"}
    IN  IF falla THEN PyTuple(<<PyNone, MsgErrorBusqueda(rut)>>)
        ELSE IF hallados # {}
        THEN PyTuple(<<PyStr(<<CHOOSE id \in hallados : TRUE>>), PyNone>>)
        ELSE PyTuple(<<PyNone, MsgNoRegistrado(rut)>>)

\* df['cliente_rut'].unique(): the distinct values, in order of appearance
RECURSIVE unique(_)
unique(ruts) ==
    IF ruts = <<>> THEN <<>>
    ELSE LET resto == unique(SubSeq(ruts, 1, Len(ruts) - 1))
             ultimo == ruts[Len(ruts)]
         IN  IF \E i \in 1..Len(resto) : resto[i] = ultimo
             THEN resto ELSE Append(resto, ultimo)

\* a loop that stops at the first rut that is not registered
RutsFaltantesPrimero(unique_ruts) ==
    LET faltan == SelectSeq(unique_ruts,
                      LAMBDA rut : ~Truthy(validate_cliente(rut, FALSE).e[1]))
    IN  IF faltan = <<>> THEN <<>> ELSE <<faltan[1]>>

\* the loop of validate_all_clientes: cliente_id, error = validate_cliente(rut)
\* and missing_ruts.append(rut) if not cliente_id
RutsFaltantes(unique_ruts) ==
    SelectSeq(unique_ruts,
              LAMBDA rut : ~Truthy(validate_cliente(rut, FALSE).e[1]))

\* validate_all_clientes(df); falla: reading the column raises
validate_all_clientes(df, falla) ==
    LET unique_ruts == unique([k \in 1..Len(df) |-> df[k].cliente_rut])
        missing_ruts == RutsFaltantes(unique_ruts)
    IN  /\ result' =
              IF falla
              THEN Con(Resultado("validar", FALSE, "excepcion", 0),
                       [missing_ruts |-> <<>>, total_checked |-> 0])
              ELSE Con(Resultado("validar", missing_ruts = <<>>, "ok", 0),
                       [missing_ruts |-> missing_ruts,
                        total_checked |-> Len(unique_ruts)])
        /\ carga' = [df |-> df, fallas |-> <<>>, progreso |-> <<>>]
        /\ UNCHANGED <<datos, usuarios, now, subsidios, hilos>>

\* a payload built like the one of crear_calificacion, marked local
prepare_dato_tributario_local(row, cliente_id, usuario_carga_id, t) ==
    [clienteId |-> EncodeValue(cliente_id),
     usuarioCargaId |-> usuario_carga_id,
     propietarioRegistroId |-> usuario_carga_id,
     fechaDeclaracion |-> strftime(row.fecha_declaracion),
     montoDeclarado |-> row.monto_declarado,
     tipoImpuesto |-> row.tipo_impuesto,
     pais |-> row.pais,
     factores |-> [i \in 1..NUM_FACTORES |-> row.factores[i]],
     subsidiosAplicados |-> <<>>,
     esLocal |-> TRUE,
     fechaCreacion |-> t,
     fechaModificacion |-> t,
     activo |-> TRUE]

\* prepare_dato_tributario(row, cliente_id, usuario_carga_id), at time t
prepare_dato_tributario(row, cliente_id, usuario_carga_id, t) ==
    [clienteId |-> EncodeValue(cliente_id),
     usuarioCargaId |-> usuario_carga_id,
     propietarioRegistroId |-> usuario_carga_id,
     fechaDeclaracion |-> strftime(row.fecha_declaracion),
     montoDeclarado |-> row.monto_declarado,
     tipoImpuesto |-> row.tipo_impuesto,
     pais |-> row.pais,
     factores |-> [i \in 1..NUM_FACTORES |-> row.factores[i]],
     subsidiosAplicados |-> <<>>,
     esLocal |-> FALSE,
     fechaCreacion |-> t,
     fechaModificacion |-> t,
     activo |-> TRUE]

\* a lookup among the local records
find_existing_dato_local(docs, cliente_id, fecha, tipo_impuesto) ==
    {id \in 1..Len(docs) :
        /\ docs[id].clienteId = EncodeValue(cliente_id)
        /\ docs[id].fechaDeclaracion = strftime(fecha)
        /\ docs[id].tipoImpuesto = tipo_impuesto
        /\ docs[id].esLocal = TRUE}

\* find_existing_dato_bolsa: the ids of the records of the official channel
\* with the given client, date and tax type; limit(1) keeps the first in the
\* order of the store's document names, which can be any of them
find_existing_dato_bolsa(docs, cliente_id, fecha, tipo_impuesto) ==
    {id \in 1..Len(docs) :
        /\ docs[id].clienteId = EncodeValue(cliente_id)
        /\ docs[id].fechaDeclaracion = strftime(fecha)
        /\ docs[id].tipoImpuesto = tipo_impuesto
        /\ docs[id].esLocal = FALSE}

\* a new document of the official channel: it has no fechaEliminacion
NuevoDato(dato) ==
    [k \in DOMAIN dato \cup {"fechaEliminacion"} |->
        IF k = "fechaEliminacion" THEN 0 ELSE dato[k]]

\* an error entry that counts the rows from 1, without the header
FilaErrorSinCabecera(est, idx, motivo) ==
    [est EXCEPT !.errors = Append(@, [fila |-> idx + 1, motivo |-> motivo])]

FilaError(est, idx, motivo) ==
    [est EXCEPT !.errors = Append(@, [fila |-> idx + 2, motivo |-> motivo])]

\* progress_callback(int((idx + 1) / total * 100)), when a callback is given:
\* the call is recorded with the number of rows already counted in created,
\* updated or errors when it is made
ReportarProgreso(est, idx, total, progress_callback) ==
    IF progress_callback
    THEN [est EXCEPT !.progreso =
             Append(@, [fila |-> idx,
                        valor |-> ((idx + 1) * 100) \div total,
                        procesadas |-> est.created + est.updated + Len(est.errors)])]
    ELSE est

\* one pass of the loop of import_data over the row at index idx: the set of
\* the states it can leave; est = [docs, created, updated, errors, progreso],
\* falla names the call that raises while this row is processed, if any
ProcesarFila(est0, row, idx, usuario_carga_id, falla, t, total, progress_callback) ==
    LET est == ReportarProgreso(est0, idx, total, progress_callback)
        cliente_id == validate_cliente(row.cliente_rut, falla = "clientes")
        existentes == IF falla = "busqueda" THEN {}
                      ELSE find_existing_dato_bolsa(est.docs, cliente_id,
                               row.fecha_declaracion, row.tipo_impuesto)
        dato == prepare_dato_tributario(row, cliente_id, usuario_carga_id, t)
    IN  IF ~Truthy(cliente_id)
        THEN {FilaError(est, idx, "cliente")}
        ELSE IF ~row.numerico
        THEN {FilaError(est, idx, "excepcion")}
        ELSE IF falla = "escritura"
        THEN {FilaError(est, idx, "excepcion")}
        ELSE IF existentes # {}
        THEN {[est EXCEPT !.docs[existing_id] = Update(@, dato),
                          !.updated = @ + 1] : existing_id \in existentes}
        ELSE {[est EXCEPT !.docs = Append(@, NuevoDato(dato)),
                          !.created = @ + 1]}

RECURSIVE ImportarFilas(_, _, _, _, _, _, _)
ImportarFilas(est, df, k, usuario_carga_id, fallas, t, progress_callback) ==
    IF k > Len(df) THEN {est}
    ELSE UNION {ImportarFilas(sig, df, k + 1, usuario_carga_id, fallas, t,
                              progress_callback) :
                  sig \in ProcesarFila(est, df[k], k - 1, usuario_carga_id,
                                       fallas[k], t, Len(df), progress_callback)}

\* a success flag that asks for a run without errors
ExitoSinErrores(errors, created_count, updated_count) == Len(errors) = 0

\* success = len(errors) == 0 or (created_count + updated_count) > 0
Exito(errors, created_count, updated_count) ==
    Len(errors) = 0 \/ (created_count + updated_count) > 0

\* import_data(df, usuario_carga_id, progress_callback): fallas[k] names the
\* store call that raises while row k is processed, if any; progress_callback
\* is TRUE when a callback is given
import_data(df, usuario_carga_id, fallas, progress_callback) ==
    \E fin \in ImportarFilas([docs |-> datos, created |-> 0, updated |-> 0,
                              errors |-> <<>>, progreso |-> <<>>],
                             df, 1, usuario_carga_id, fallas, now,
                             progress_callback) :
        /\ datos' = fin.docs
        /\ now' = IF fin.docs # datos THEN now + 1 ELSE now
        /\ result' = [op |-> "importar",
                      success |-> Exito(fin.errors, fin.created, fin.updated),
                      motivo |-> "ok", id |-> 0,
                      created |-> fin.created, updated |-> fin.updated,
                      errors |-> fin.errors,
                      total |-> fin.created + fin.updated,
                      lista |-> {}]
        /\ carga' = [df |-> df, fallas |-> fallas, progreso |-> fin.progreso]
        /\ UNCHANGED <<usuarios, subsidios, hilos>>

(***************************************************************************)
(* services/subsidyService.py                                              *)
(*  - a percentage is an integer number of 1/10000: ESCALA stands for 1,   *)
(*    so that quantize(Decimal("0.0001")) yields whole numbers             *)
(*  - uuid4() yields an id that no row of the table has                    *)
(***************************************************************************)
ESCALA == 10000

\* x / d rounded to an integer, ties to the even one (ROUND_HALF_EVEN, the
\* rounding of the default decimal context)
RedondeoMitadPar(x, d) ==
    LET q == x \div d
        r == x % d
    IN  IF 2 * r > d THEN q + 1
        ELSE IF 2 * r < d THEN q
        ELSE IF q % 2 = 0 THEN q ELSE q + 1

\* if vp > 1: vp = (vp / Decimal(100)).quantize(Decimal("0.0001"))
Normalizar(vp) ==
    IF vp > ESCALA THEN RedondeoMitadPar(vp, 100) ELSE vp

\* str.strip() on a sequence of characters
RECURSIVE strip(_)
strip(s) ==
    IF s = <<>> THEN s
    ELSE IF s[1] = " " THEN strip(Tail(s))
    ELSE IF s[Len(s)] = " " THEN strip(SubSeq(s, 1, Len(s) - 1))
    ELSE s

\* str.replace(',', '.')
ReemplazarComa(s) == [i \in 1..Len(s) |-> IF s[i] = "," THEN "." ELSE s[i]]

DIGITOS == <<"0", "1", "2", "3", "4", "5", "6", "7", "8", "9">>

EsDigito(c) == \E k \in 1..10 : DIGITOS[k] = c

Digito(c) == (CHOOSE k \in 1..10 : DIGITOS[k] = c) - 1

RECURSIVE Entero(_)
Entero(s) ==
    IF s = <<>> THEN 0
    ELSE Entero(SubSeq(s, 1, Len(s) - 1)) * 10 + Digito(s[Len(s)])

RECURSIVE Pot10(_)
Pot10(n) == IF n = 0 THEN 1 ELSE 10 * Pot10(n - 1)

\* Decimal(texto) for the texts "[+-]digits[.digits]" with at most four
\* decimals: [ok, v]; ok is FALSE where Decimal() raises InvalidOperation
ParseDecimal(texto) ==
    LET signo == texto # <<>> /\ texto[1] \in {"-", "+"}
        cuerpo == IF signo THEN Tail(texto) ELSE texto
        puntos == {i \in 1..Len(cuerpo) : cuerpo[i] = "."}
        punto == IF puntos = {} THEN Len(cuerpo) + 1
                 ELSE CHOOSE i \in puntos : TRUE
        ent == SubSeq(cuerpo, 1, punto - 1)
        dec == SubSeq(cuerpo, punto + 1, Len(cuerpo))
        bien == /\ Cardinality(puntos) <= 1
                /\ Len(ent) + Len(dec) >= 1
                /\ Len(dec) <= 4
                /\ \A i \in 1..Len(ent) : EsDigito(ent[i])
                /\ \A i \in 1..Len(dec) : EsDigito(dec[i])
        magnitud == Entero(ent) * ESCALA + Entero(dec) * Pot10(4 - Len(dec))
    IN  IF ~bien THEN [ok |-> FALSE, v |-> 0]
        ELSE [ok |-> TRUE,
              v |-> IF signo /\ texto[1] = "-" THEN 0 - magnitud ELSE magnitud]

\* the row (nombre_subsidio, valor_porcentual, id_normativa) of the table;
\* an empty id_normativa stands for NULL
FilaSubsidio(nombre, vp, id_norm) ==
    [nombre_subsidio |-> nombre, valor_porcentual |-> vp, id_normativa |-> id_norm]

\* INSERT ... ON CONFLICT(id) DO UPDATE / UPDATE ... WHERE id = ?
Upsert(tabla, sid, fila) ==
    [k \in DOMAIN tabla \cup {sid} |-> IF k = sid THEN fila ELSE tabla[k]]

UUIDS == {"u1", "u2"}

\* get_by_id(subsidio_id): the row with its id, or None
get_by_id(subsidio_id) ==
    IF subsidio_id \in DOMAIN subsidios
    THEN [t |-> "dict", id |-> subsidio_id, fila |-> subsidios[subsidio_id]]
    ELSE PyNone

\* the names of the model in the order the database compares them
NOMBRES == << <<"L", "e", "y", " ", "A">>, <<"L", "e", "y", " ", "B">> >>

NombreMenor(a, b) ==
    \E i, j \in 1..Len(NOMBRES) : NOMBRES[i] = a /\ NOMBRES[j] = b /\ i < j

\* list_all(): the ids of the rows ORDER BY nombre_subsidio; rows of equal
\* name come in any order
list_all ==
    {orden \in [1..Cardinality(DOMAIN subsidios) -> DOMAIN subsidios] :
        /\ \A i, j \in DOMAIN orden : i # j => orden[i] # orden[j]
        /\ \A i, j \in DOMAIN orden :
              i < j => ~NombreMenor(subsidios[orden[j]].nombre_subsidio,
                                    subsidios[orden[i]].nombre_subsidio)}

\* what a ledger call returns: success is FALSE for a call that ended with
\* an exception, motivo names the call that raised during it ("ok" if none),
\* stats is the dict of import_from_csv, cambio tells that the table changed
ResultadoSubsidio(op, raised, motivo, stats, tabla) ==
    Con(Resultado(op, ~raised, motivo, 0),
        [stats |-> stats, cambio |-> tabla # subsidios])

SinStats == [added |-> 0, updated |-> 0, errors |-> 0, rows |-> 0]

\* add_or_update(subsidio): sid is the given id or a new uuid; falla names
\* the call that raises, if any: the INSERT ("escritura") or log_audit
\* ("auditoria"), which is called after the commit, inside the try block
add_or_update(subsidio, falla) ==
    LET vp == Normalizar(subsidio.valor_porcentual)
        nombre == strip(subsidio.nombre_subsidio)
    IN  /\ \E sid \in (IF subsidio.id # "" THEN {subsidio.id}
                       \* subsidio.get("id") or str(uuid.uuid4())
                       ELSE UUIDS \ DOMAIN subsidios) :
              LET tabla == IF falla = "escritura" THEN subsidios
                           ELSE Upsert(subsidios, sid,
                                    FilaSubsidio(nombre, vp, subsidio.id_normativa))
              IN  /\ subsidios' = tabla
                  /\ result' = ResultadoSubsidio("add_or_update",
                                   falla # "ninguna",
                                   IF falla = "ninguna" THEN "ok" ELSE falla,
                                   SinStats, tabla)
        /\ UNCHANGED <<datos, usuarios, now, carga, hilos>>

\* one row of the loop of import_from_csv on the open transaction: the
\* states it can leave; est = [tabla, stats, fallo], fallo telling that a
\* write of a row raised
ImportarFilaCSV(est, row, falla) ==
    LET contada == [est EXCEPT !.stats.rows = @ + 1]
        error == [contada EXCEPT !.stats.errors = @ + 1]
        nombre == strip(row.nombre)
        valor_raw == strip(row.valor)
        id_norm == strip(row.id_norm)
        parsed == ParseDecimal(ReemplazarComa(valor_raw))
        valor == Normalizar(parsed.v)
        por_norma == IF id_norm = <<>> THEN {}
                     ELSE {k \in DOMAIN est.tabla :
                              est.tabla[k].id_normativa = id_norm}
        por_nombre == {k \in DOMAIN est.tabla :
                          est.tabla[k].nombre_subsidio = nombre}
        fila == FilaSubsidio(nombre, valor, id_norm)
    IN  IF nombre = <<>> \/ valor_raw = <<>> THEN {error}
        ELSE IF ~parsed.ok THEN {error}
        ELSE IF falla THEN {[error EXCEPT !.fallo = TRUE]}
        ELSE IF por_norma # {}
        THEN {[contada EXCEPT !.tabla = Upsert(@, k, fila),
                              !.stats.updated = @ + 1] : k \in por_norma}
        ELSE IF por_nombre # {}
        THEN {[contada EXCEPT !.tabla = Upsert(@, k, fila),
                              !.stats.updated = @ + 1] : k \in por_nombre}
        ELSE {[contada EXCEPT !.tabla = Upsert(@, new_id, fila),
                              !.stats.added = @ + 1] :
                 new_id \in UUIDS \ DOMAIN est.tabla}

RECURSIVE ImportarFilasCSV(_, _, _, _)
ImportarFilasCSV(est, rows, k, falla) ==
    IF k > Len(rows) THEN {est}
    ELSE UNION {ImportarFilasCSV(sig, rows, k + 1, falla) :
                  sig \in ImportarFilaCSV(est, rows[k],
                                          falla = [en |-> "fila", k |-> k])}

\* import_from_csv(csv_path) for a file with the given rows; falla is where
\* an exception is raised, if anywhere: the write of row k ("fila", inside
\* the try block of the row), "commit", or log_audit ("auditoria"), called
\* after the commit inside the outer try block
import_from_csv(rows, falla) ==
    /\ \E fin \in ImportarFilasCSV([tabla |-> subsidios, stats |-> SinStats,
                                    fallo |-> FALSE], rows, 1, falla) :
          /\ LET tabla == IF falla.en = "commit" THEN subsidios ELSE fin.tabla
                 stats == IF falla.en \in {"commit", "auditoria"}
                          THEN [fin.stats EXCEPT !.errors = @ + 1]
                          ELSE fin.stats
                 motivo == IF falla.en \in {"commit", "auditoria"} THEN falla.en
                           ELSE IF fin.fallo THEN "fila" ELSE "ok"
             IN  /\ subsidios' = tabla
                 /\ result' = ResultadoSubsidio("import_from_csv", FALSE, motivo,
                                                stats, tabla)
    /\ UNCHANGED <<datos, usuarios, now, carga, hilos>>

(***************************************************************************)
(* views/taxManagementWindow.py: the form of a qualification               *)
(*  - an amount of the form is a whole number of cents                     *)
(***************************************************************************)
\* Decimal(str(self.input_monto.value())) for an amount of the service
EnCentavos(monto) == monto * 10

\* a step that drops the fraction of a cent
PasoTruncado(monto, vp) == (monto * (ESCALA - vp)) \div ESCALA

\* monto = (monto * (Decimal("1") - vp)).quantize(Decimal("0.01"))
PasoCascada(monto, vp) ==
    RedondeoMitadPar(monto * (ESCALA - vp), ESCALA)

\* the loop of _update_preview_monto over selected_ids: the row comes from
\* _subsidios_map or, when the map has none, from get_by_id; an id that
\* neither has is skipped
RECURSIVE Cascada(_, _, _)
Cascada(monto, selected_ids, mapa) ==
    IF selected_ids = <<>> THEN monto
    ELSE LET sid == selected_ids[1]
             s == IF sid \in DOMAIN mapa
                  THEN [t |-> "dict", id |-> sid, fila |-> mapa[sid]]
                  ELSE get_by_id(sid)
         IN  IF s.t = "none"
             THEN Cascada(monto, Tail(selected_ids), mapa)
             ELSE Cascada(PasoCascada(monto, s.fila.valor_porcentual),
                          Tail(selected_ids), mapa)

\* _update_preview_monto() for the amount and the checked ids of the form,
\* the map being the one _load_subsidios_into_list built from list_all()
_update_preview_monto(monto, selected_ids) ==
    /\ result' = Con(Resultado("preview", TRUE, "ok", 0),
                     [monto |-> monto, selected_ids |-> selected_ids,
                      ajustado |-> Cascada(monto, selected_ids, subsidios)])
    /\ UNCHANGED <<datos, usuarios, now, carga, subsidios, hilos>>

\* _gather_selected_subsidios_ids(): the checked items in the order of the
\* list, which is the order of list_all()
_gather_selected_subsidios_ids(orden, marcados) ==
    LET ids == SelectSeq(orden, LAMBDA sid : sid \in marcados)
    IN  [i \in 1..Len(ids) |-> PyStr(<<ids[i]>>)]

\* guardar() in mode "crear": the form with the ids of the checked
\* subsidies goes to crear_calificacion
guardar(d, marcados, usuario_id) ==
    \E orden \in list_all :
        crear_calificacion(
            [d EXCEPT !.subsidios_aplicados =
                 _gather_selected_subsidios_ids(orden, marcados)],
            usuario_id, "ninguna")

(***************************************************************************)
(* Inputs                                                                  *)
(***************************************************************************)
D1 == [dia |-> "2024-11-20", hora |-> 0]
D2 == [dia |-> "2024-11-21", hora |-> 0]

\* factor_1 = 1.0, factor_8 + factor_9 = 1.0: valid, on the boundary
FOk == [i \in 1..NUM_FACTORES |->
          IF i = 1 THEN Decimal(1, 0) ELSE IF i \in {8, 9} THEN Decimal(0, 5) ELSE 0]
\* factor_8..factor_19 = 0.1 each: the window sums to 1.2
FSuma == [i \in 1..NUM_FACTORES |-> IF i >= 8 THEN Decimal(0, 1) ELSE 0]

Dato(rut, fecha, tipo, monto, factores) ==
    [cliente_id |-> rut, fecha_declaracion |-> fecha, tipo_impuesto |-> tipo,
     pais |-> "Chile", monto_declarado |-> monto, factores |-> factores,
     subsidios_aplicados |-> <<>>]

\* the forms submitted to crear_calificacion
DatosCrear ==
    {Dato(RUT_CLIENTE, D1, "IVA", Decimal(100, 0), FOk),
     Dato(RUT_ANALISTA, D1, "IVA", Decimal(100, 0), FOk),
     Dato(RUT_DV_MALO, D1, "IVA", Decimal(100, 0), FOk),
     Dato(RUT_CLIENTE, D1, "IVA", 0 - Decimal(1, 0), FOk),
     Dato(RUT_CLIENTE, D1, "IVA", Decimal(100, 0), FSuma)}

\* the forms submitted to actualizar_calificacion
DatosActualizar ==
    {Dato(RUT_CLIENTE, D2, "Renta", Decimal(250, 0), FOk),
     Dato(RUT_CLIENTE, D2, "Renta", Decimal(250, 0), FSuma)}

Fila(rut, fecha, tipo, monto, factores, numerico) ==
    [cliente_rut |-> rut, fecha_declaracion |-> fecha, tipo_impuesto |-> tipo,
     pais |-> "Chile", monto_declarado |-> monto, factores |-> factores,
     numerico |-> numerico]

\* the rows of the imported tables; numerico = FALSE is a row with a cell
\* float() rejects
FilasServicio ==
    {Fila(RUT_CLIENTE, D1, "IVA", Decimal(100, 0), FOk, TRUE),
     Fila(RUT_CLIENTE, D2, "Renta", Decimal(100, 0), FOk, TRUE),
     Fila(RUT_CLIENTE, D1, "IVA", 0 - Decimal(1, 0), FSuma, TRUE)}

Filas ==
    FilasServicio
    \cup {Fila(RUT_ANALISTA, D1, "IVA", Decimal(100, 0), FOk, TRUE),
          Fila(RUT_CLIENTE, D1, "IVA", Decimal(100, 0), FOk, FALSE)}

TablasDe(filas, n) == UNION {[1..k -> filas] : k \in 0..n}

\* the rows of the tables given to validate_all_clientes: a registered
\* cliente, a party that is no cliente, a rut of no party
FilasValidar ==
    {Fila(RUT_CLIENTE, D1, "IVA", Decimal(100, 0), FOk, TRUE),
     Fila(RUT_ANALISTA, D1, "IVA", Decimal(100, 0), FOk, TRUE),
     Fila(RUT_DV_MALO, D1, "IVA", Decimal(100, 0), FOk, TRUE)}

\* (usuario_id, rol) of the callers of update and delete
Actores == {<<"a1", "analista_mercado">>, <<"a2", "analista_mercado">>,
            <<"adm", "administrador">>}

Creadores == {"a1"}

FallasFila == {"ninguna", "escritura"}

\* the filtros dicts passed to listar_calificaciones; the empty one stands
\* for None as well
Filtros ==
    {<<>>,
     [tipo_impuesto |-> "IVA"],
     [fecha_desde |-> D2],
     [fecha_hasta |-> D1, pais |-> "Chile"],
     [fecha_desde |-> D1, fecha_hasta |-> D2, tipo_impuesto |-> "Renta",
      pais |-> "Peru"]}

(***************************************************************************)
(* Specification of the service: every operation, from the empty store     *)
(***************************************************************************)
Init ==
    /\ datos = <<>>
    /\ usuarios = UsuariosIniciales
    /\ now = 1
    /\ result = Resultado("inicio", TRUE, "ok", 0)
    /\ carga = [df |-> <<>>, fallas |-> <<>>, progreso |-> <<>>]
    /\ subsidios = <<>>
    /\ hilos = <<>>

Limites == Len(datos) <= MaxDocs /\ now <= MaxClock

\* the last call wrote to the store.  A call that wrote nothing left the
\* store and the clock as they were: the calls that can follow it are the
\* calls that can follow the state it started from, and they are taken there.
Escribio ==
    CASE result.op = "inicio" -> TRUE
      [] result.op = "importar" -> result.created + result.updated > 0
      [] result.op \in {"listar", "validar", "preview", "validate_factor_sum",
                       "validate_rut", "validar_filtros"} -> FALSE
      [] result.op \in {"add_or_update", "import_from_csv"} -> result.cambio
      [] OTHER -> result.success \/ result.motivo = "error_auditoria"

Crear ==
    /\ Escribio
    /\ \E d \in DatosCrear, u \in Creadores :
           crear_calificacion(d, u, "ninguna") /\ Limites'

Actualizar ==
    /\ Escribio
    /\ \E id \in 1..MaxDocs, d \in DatosActualizar, a \in Actores :
           actualizar_calificacion(id, d, a[1], a[2], "ninguna") /\ Limites'

Eliminar ==
    /\ Escribio
    /\ \E id \in 1..MaxDocs, a \in Actores :
           eliminar_calificacion(id, a[1], a[2], "ninguna") /\ Limites'

Importar ==
    /\ Escribio
    /\ \E df \in TablasDe(FilasServicio, MaxFilasServicio), u \in Creadores :
           import_data(df, u, [k \in 1..Len(df) |-> "ninguna"], FALSE) /\ Limites'

Listar ==
    /\ Escribio
    /\ \E a \in Actores, filtros \in Filtros :
           listar_calificaciones(a[1], a[2], filtros, FALSE)

Next == Crear \/ Actualizar \/ Eliminar \/ Importar \/ Listar

Spec == Init /\ [][Next]_vars

(***************************************************************************)
(* The same operations with one more write allowed                         *)
(***************************************************************************)
LimitesLargo == Len(datos) <= MaxDocs /\ now <= MaxClock + 1

CrearLargo ==
    /\ Escribio
    /\ \E d \in DatosCrear, u \in Creadores :
           crear_calificacion(d, u, "ninguna") /\ LimitesLargo'

ActualizarLargo ==
    /\ Escribio
    /\ \E id \in 1..MaxDocs, d \in DatosActualizar, a \in Actores :
           actualizar_calificacion(id, d, a[1], a[2], "ninguna") /\ LimitesLargo'

EliminarLargo ==
    /\ Escribio
    /\ \E id \in 1..MaxDocs, a \in Actores :
           eliminar_calificacion(id, a[1], a[2], "ninguna") /\ LimitesLargo'

ImportarLargo ==
    /\ Escribio
    /\ \E df \in TablasDe(FilasServicio, MaxFilasServicio), u \in Creadores :
           import_data(df, u, [k \in 1..Len(df) |-> "ninguna"], FALSE) /\ LimitesLargo'

NextLargo ==
    CrearLargo \/ ActualizarLargo \/ EliminarLargo \/ ImportarLargo \/ Listar

SpecLargo == Init /\ [][NextLargo]_vars

(***************************************************************************)
(* The calls that add records, and the update                              *)
(***************************************************************************)
NextActualizar == CrearLargo \/ ImportarLargo \/ ActualizarLargo

SpecActualizar == Init /\ [][NextActualizar]_vars

(***************************************************************************)
(* The operations of the form with calls that raise and with factor lists  *)
(* of every kind of length                                                 *)
(***************************************************************************)
FallasServicio == {"ninguna", "escritura", "auditoria", "conflicto"}

\* 18 factors, the first out of range
F18 == [i \in 1..(NUM_FACTORES - 1) |-> IF i = 1 THEN Decimal(1, 5) ELSE 0]

\* 20 factors, factor_8..factor_19 summing to 1.2
F20 == [i \in 1..(NUM_FACTORES + 1) |-> IF i >= 8 THEN Decimal(0, 1) ELSE 0]

\* forms whose factor list has not 19 entries, the other fields valid
DatosLongitud ==
    {Dato(RUT_CLIENTE, D2, "Renta", Decimal(250, 0), <<>>),
     Dato(RUT_CLIENTE, D2, "Renta", Decimal(250, 0), F18),
     Dato(RUT_CLIENTE, D2, "Renta", Decimal(250, 0), F20)}

CrearConFallas ==
    /\ Escribio
    /\ \E d \in DatosCrear \cup DatosLongitud, u \in Creadores,
          falla \in FallasServicio :
           crear_calificacion(d, u, falla) /\ Limites'

ActualizarConFallas ==
    /\ Escribio
    /\ \E id \in 1..MaxDocs, d \in DatosActualizar \cup DatosLongitud,
          a \in Actores, falla \in FallasServicio :
           actualizar_calificacion(id, d, a[1], a[2], falla) /\ Limites'

EliminarConFallas ==
    /\ Escribio
    /\ \E id \in 1..MaxDocs, a \in Actores, falla \in FallasServicio :
           eliminar_calificacion(id, a[1], a[2], falla) /\ Limites'

ImportarConFallas ==
    /\ Escribio
    /\ \E df \in TablasDe(FilasServicio, MaxFilasServicio), u \in Creadores :
          \E fallas \in [1..Len(df) -> {"ninguna", "busqueda"}] :
              import_data(df, u, fallas, FALSE) /\ Limites'

NextFallas ==
    CrearConFallas \/ ActualizarConFallas \/ EliminarConFallas
    \/ ImportarConFallas

SpecFallas == Init /\ [][NextFallas]_vars

(***************************************************************************)
(* Specification of the subsidy ledger and of the form that applies it     *)
(***************************************************************************)
N1 == <<"N", "1">>

\* the percentages supplied, in 1/10000: 0.1, 10, 150, -0.1 and 12.345
VALORES == {1000, 100000, 1500000, 0 - 1000, 123450}

\* the percentages the table holds after these were supplied
ValoresGuardados == {Normalizar(vp) : vp \in VALORES}

\* the dicts passed to add_or_update; id "" stands for no id
SubsidiosDados ==
    {[id |-> id, nombre_subsidio |-> nombre, valor_porcentual |-> vp,
      id_normativa |-> <<>>] :
        id \in {"", "u1"}, nombre \in {NOMBRES[1], NOMBRES[2]}, vp \in VALORES}

FilaCSV(nombre, valor, id_norm) ==
    [nombre |-> nombre, valor |-> valor, id_norm |-> id_norm]

\* the rows of the CSV files: well-formed ones, one with an unparsable
\* value, one without name, one without value
FilasCSV ==
    {FilaCSV(NOMBRES[1], <<"1", "0">>, <<>>),
     FilaCSV(NOMBRES[2], <<"1", "2", ",", "3", "4", "5">>, N1),
     FilaCSV(NOMBRES[1], <<" ", "1", "5", "0">>, N1),
     FilaCSV(NOMBRES[2], <<"-", "0", ".", "1">>, <<>>),
     FilaCSV(NOMBRES[1], <<"1", "0", "%">>, <<>>),
     FilaCSV(<<" ">>, <<"1", "0">>, <<>>),
     FilaCSV(NOMBRES[2], <<>>, <<>>)}

FallasCSV(n) ==
    {[en |-> "ninguna", k |-> 0], [en |-> "commit", k |-> 0],
     [en |-> "auditoria", k |-> 0]}
    \cup {[en |-> "fila", k |-> k] : k \in 1..n}

\* the amounts of the form, in cents: 1000.00 and 333.33
MontosForm == {100000, 33333}

\* the ids a selection is made of: the ids of the table and one of no row
IdsForm == {"u1", "u2", "zz"}

LimitesSubsidios == Cardinality(DOMAIN subsidios) <= MaxSubsidios

AgregarSubsidio ==
    /\ Escribio
    /\ \E subsidio \in SubsidiosDados, falla \in FallasServicio :
           add_or_update(subsidio, falla) /\ LimitesSubsidios'

ImportarCSV ==
    /\ Escribio
    /\ \E rows \in TablasDe(FilasCSV, MaxFilasCSV) :
          \E falla \in FallasCSV(Len(rows)) :
              import_from_csv(rows, falla) /\ LimitesSubsidios'

NextSubsidios == AgregarSubsidio \/ ImportarCSV

SpecSubsidios == Init /\ [][NextSubsidios]_vars

(***************************************************************************)
(* Specification of the form, opened on a ledger that holds any rows the   *)
(* ledger operations can leave                                             *)
(***************************************************************************)
TablasSubsidios ==
    UNION {[ids -> {FilaSubsidio(nombre, vp, <<>>) :
                       nombre \in {NOMBRES[1], NOMBRES[2]},
                       vp \in ValoresGuardados}] :
             ids \in {x \in SUBSET UUIDS : Cardinality(x) <= MaxSubsidios}}

InitFormulario ==
    /\ datos = <<>>
    /\ usuarios = UsuariosIniciales
    /\ now = 1
    /\ result = Resultado("inicio", TRUE, "ok", 0)
    /\ carga = [df |-> <<>>, fallas |-> <<>>, progreso |-> <<>>]
    /\ subsidios \in TablasSubsidios
    /\ hilos = <<>>

Previsualizar ==
    /\ Escribio
    /\ \E monto \in MontosForm, selected_ids \in TablasDe(IdsForm, MaxSubsidios) :
           _update_preview_monto(monto, selected_ids)

Guardar ==
    /\ Escribio
    /\ \E d \in {Dato(RUT_CLIENTE, D1, "IVA", Decimal(1000, 0), FOk)},
          marcados \in SUBSET DOMAIN subsidios, u \in Creadores :
           guardar(d, marcados, u) /\ Len(datos') <= MaxGuardados

NextFormulario == Previsualizar \/ Guardar

SpecFormulario == InitFormulario /\ [][NextFormulario]_vars

(***************************************************************************)
(* Specification of validate_factor_sum alone, on factor dicts of the      *)
(* tenths grid                                                             *)
(***************************************************************************)
\* factor_8..factor_11 any tenths up to MaxDecimo and the others 0.0, and
\* factor_8..factor_19 all 0.1 but at most MaxCeros of them, which are 0.0
VectoresVentana ==
    {[i \in 1..NUM_FACTORES |-> IF i \in DOMAIN v THEN v[i] ELSE 0] :
        v \in [FACTOR_SUM_START..(FACTOR_SUM_START + 3) -> 0..MaxDecimo]}
    \cup {[i \in 1..NUM_FACTORES |->
              IF i >= FACTOR_SUM_START /\ i \notin ceros THEN Decimal(0, 1) ELSE 0] :
            ceros \in {c \in SUBSET (FACTOR_SUM_START..FACTOR_SUM_END) :
                          Cardinality(c) <= MaxCeros}}

ValidarSuma ==
    /\ Escribio
    /\ \E factors \in VectoresVentana :
        LET v == validate_factor_sum(factors, FACTOR_SUM_START, FACTOR_SUM_END)
        IN  /\ result' = Con(Resultado("validate_factor_sum", v.ok, v.motivo, 0),
                             [factors |-> factors, suma |-> v.total])
            /\ UNCHANGED <<datos, usuarios, now, carga, subsidios, hilos>>

SpecSuma == Init /\ [][ValidarSuma]_vars

(***************************************************************************)
(* Specification of validate_rut alone                                     *)
(***************************************************************************)
\* the ruts validated: "12345" followed by one to MaxCola characters, with
\* or without points and hyphen, and a last character
RutsValidados ==
    {<<"1", "2">> \o punto \o <<"3", "4", "5">> \o cola \o guion \o <<dv>> :
        punto \in {<<>>, <<".">>},
        cola \in UNION {[1..n -> {"6", "7", "8", "0", "A"}] : n \in 1..MaxCola},
        guion \in {<<>>, <<"-">>},
        dv \in {"0", "1", "2", "3", "4", "5", "6", "7", "8", "9", "K", "k", "X"}}

ValidarRut ==
    /\ Escribio
    /\ \E rut \in RutsValidados :
          LET v == validate_rut(rut)
          IN  /\ result' = Con(Resultado("validate_rut", v.ok, v.motivo, 0),
                               [rut |-> rut])
              /\ UNCHANGED <<datos, usuarios, now, carga, subsidios, hilos>>

SpecRut == Init /\ [][ValidarRut]_vars

(***************************************************************************)
(* Specification of the bulk import alone: larger tables, rows that raise  *)
(***************************************************************************)
\* at most MaxCargas imports that write
ImportarCarga ==
    /\ now <= MaxCargas
    /\ Escribio
    /\ \E df \in TablasDe(Filas, MaxRows), u \in Creadores :
          \E fallas \in [1..Len(df) -> FallasFila] :
              import_data(df, u, fallas, TRUE) /\ Len(datos') <= MaxDocs

NextCarga == ImportarCarga

SpecCarga == Init /\ [][NextCarga]_vars

(***************************************************************************)
(* Specification of the validation of the clients of a table, before and   *)
(* between imports                                                         *)
(***************************************************************************)
ValidarClientes ==
    /\ Escribio
    /\ \E df \in TablasDe(FilasValidar, MaxValidar) :
           validate_all_clientes(df, FALSE)

NextValidar == Importar \/ ValidarClientes

SpecValidar == Init /\ [][NextValidar]_vars

(***************************************************************************)
(* services/reportService.py and the lists of the single-record form       *)
(*  - a filtros dict is a record with all its keys: "" and 0 stand for a   *)
(*    key that is absent or has a value that is false                      *)
(***************************************************************************)
tipos_validos == {"IVA", "Renta", "Importación", "Exportación", "Otro"}
paises_validos == {"Chile", "Perú", "Colombia"}

\* _validar_filtros(filtros): (es_valido, the check that failed)
_validar_filtros(filtros) ==
    IF filtros.fecha_desde # 0 /\ filtros.fecha_hasta # 0
       /\ filtros.fecha_desde > filtros.fecha_hasta
    THEN [ok |-> FALSE, motivo |-> "fechas"]
    ELSE IF filtros.tipo_impuesto # "" /\ filtros.tipo_impuesto \notin tipos_validos
    THEN [ok |-> FALSE, motivo |-> "tipo_impuesto"]
    ELSE IF filtros.pais # "" /\ filtros.pais \notin paises_validos
    THEN [ok |-> FALSE, motivo |-> "pais"]
    ELSE IF filtros.estado # "" /\ filtros.estado \notin {"local", "bolsa", "ambos"}
    THEN [ok |-> FALSE, motivo |-> "estado"]
    ELSE [ok |-> TRUE, motivo |-> "ok"]

\* the items of the combo boxes of add_seccion_general
combo_tipo_impuesto == {"IVA", "Renta", "Importación", "Exportación", "Otro"}
combo_pais == {"Chile", "Perú", "Colombia"}

\* the filters given to _validar_filtros: the values of each channel
FiltrosReporte ==
    [fecha_desde : 0..2, fecha_hasta : 0..1,
     tipo_impuesto : {""} \cup TIPOS_IMPUESTO_VALIDOS \cup tipos_validos,
     pais : {""} \cup PAISES_VALIDOS \cup paises_validos,
     estado : {"", "bolsa", "todos"}]

ValidarFiltros ==
    /\ Escribio
    /\ \E filtros \in FiltrosReporte :
          LET v == _validar_filtros(filtros)
          IN  result' = Con(Resultado("validar_filtros", v.ok, v.motivo, 0),
                            [filtros |-> filtros])
    /\ UNCHANGED <<datos, usuarios, now, carga, subsidios, hilos>>

SpecFiltros == Init /\ [][ValidarFiltros]_vars

(***************************************************************************)
(* Specification of imports that follow one another: tables of the rows of *)
(* the registered cliente, one of them with a cell float() rejects         *)
(***************************************************************************)
ImportarSeguido ==
    /\ now <= MaxCargas + 1
    /\ Escribio
    /\ \E df \in TablasDe({f \in Filas : f.cliente_rut = RUT_CLIENTE}, MaxRows) :
           /\ import_data(df, "a1", [k \in 1..Len(df) |-> "ninguna"], FALSE)
           /\ Len(datos') <= MaxDocs

SpecSeguido == Init /\ [][ImportarSeguido]_vars

(***************************************************************************)
(* Specification of two calls that run at once on the shared store.  Each  *)
(* store query and each store write is one step; nothing joins the lookup  *)
(* of a call with its write.  The lookup of the party reads "usuarios",    *)
(* which no call writes, and is taken together with the query that follows *)
(* it.                                                                     *)
(***************************************************************************)
\* a call that is about to run its existence lookup
Hilo(op, entrada) == [op |-> op, entrada |-> entrada, pc |-> "consulta", visto |-> 0]

\* crear_calificacion or import_data of a one-row table, next to an
\* import_data of a one-row table, started on the empty store
Lanzar ==
    /\ hilos = <<>>
    /\ \E h1 \in {Hilo("crear", d) : d \in DatosCrear}
                 \cup {Hilo("importar", row) : row \in FilasServicio},
          h2 \in {Hilo("importar", row) : row \in FilasServicio} :
           hilos' = <<h1, h2>>
    /\ UNCHANGED <<datos, usuarios, now, result, carga, subsidios>>

\* the call up to and with its existence lookup: crear_calificacion down to
\* buscar_conflicto_oficial, the loop of import_data down to
\* find_existing_dato_bolsa; visto is the document the lookup returned, or 0
Consultar ==
    \E i \in DOMAIN hilos :
        LET h == hilos[i]
            d == h.entrada
            v == _validar_datos(d)
            cliente_id == _validate_cliente(d.cliente_id, FALSE).e[1]
            conflicto == buscar_conflicto_oficial(cliente_id,
                             strftime(d.fecha_declaracion), d.tipo_impuesto)
            par == validate_cliente(d.cliente_rut, FALSE)
            existentes == find_existing_dato_bolsa(datos, par,
                              d.fecha_declaracion, d.tipo_impuesto)
            fin(r) == /\ hilos' = [hilos EXCEPT ![i].pc = "fin"]
                      /\ result' = r
            sigue(ids) == /\ \E id \in ids :
                                hilos' = [hilos EXCEPT ![i].pc = "escritura",
                                                       ![i].visto = id]
                          /\ UNCHANGED result
        IN  /\ h.pc = "consulta"
            /\ UNCHANGED <<datos, usuarios, now, carga, subsidios>>
            /\ IF h.op = "crear"
               THEN IF ~v.ok THEN fin(Resultado("crear", FALSE, v.motivo, 0))
                    ELSE IF ~Truthy(cliente_id)
                    THEN fin(Resultado("crear", FALSE, "cliente_no_registrado", 0))
                    ELSE IF conflicto # {}
                    THEN \E c \in conflicto :
                             fin(Resultado("crear", FALSE, "conflicto", c))
                    ELSE sigue({0})
               ELSE IF ~Truthy(par)
                    THEN fin(Con(Resultado("importar", FALSE, "ok", 0),
                                 [errors |-> <<[fila |-> 2, motivo |-> "cliente"]>>]))
                    ELSE sigue(IF existentes # {} THEN existentes ELSE {0})

\* the write of the call, with what its lookup returned: add() of the new
\* local record, or update() of the record found, or add() of a new one
Escribir ==
    \E i \in DOMAIN hilos :
        LET h == hilos[i]
            d == h.entrada
            cliente_id == _validate_cliente(d.cliente_id, FALSE).e[1]
            par == validate_cliente(d.cliente_rut, FALSE)
            dato == prepare_dato_tributario(d, par, "a1", now)
        IN  /\ h.pc = "escritura"
            /\ hilos' = [hilos EXCEPT ![i].pc = "fin"]
            /\ now' = now + 1
            /\ UNCHANGED <<usuarios, carga, subsidios>>
            /\ IF h.op = "crear"
               THEN /\ datos' = Append(datos, CalificacionLocal(d, cliente_id, "a1"))
                    /\ result' = Resultado("crear", TRUE, "ok", Len(datos) + 1)
               ELSE IF h.visto # 0
               THEN /\ datos' = [datos EXCEPT ![h.visto] = Update(@, dato)]
                    /\ result' = Con(Resultado("importar", TRUE, "ok", 0),
                                     [updated |-> 1, total |-> 1])
               ELSE /\ datos' = Append(datos, NuevoDato(dato))
                    /\ result' = Con(Resultado("importar", TRUE, "ok", 0),
                                     [created |-> 1, total |-> 1])

NextConcurrente == Lanzar \/ Consultar \/ Escribir

SpecConcurrente == Init /\ [][NextConcurrente]_vars

(***************************************************************************)
(* Properties                                                              *)
(***************************************************************************)
TypeOK ==
    /\ Len(datos) <= MaxDocs
    /\ now \in 1..(MaxClock + 1)

Ids == 1..Len(datos)

\* the record's clienteId designates the party p: as its document id, or as
\* the first element of a stored pair
RegistroDeCliente(r, p) ==
    \/ r.clienteId = PyStr(<<p>>)
    \/ r.clienteId.t = "array" /\ Len(r.clienteId.e) > 0 /\ r.clienteId.e[1] = PyStr(<<p>>)

MismaClave(r1, r2) ==
    /\ r1.fechaDeclaracion = r2.fechaDeclaracion
    /\ r1.tipoImpuesto = r2.tipoImpuesto

EsCliente(rut) ==
    \E p \in DOMAIN usuarios : usuarios[p].rut = rut /\ usuarios[p].rol = "cliente"

\* amount positive, 19 factors in [0,1], factor_8..factor_19 at most 1.0
RegistroValido(r) ==
    /\ r.montoDeclarado > 0
    /\ DOMAIN r.factores = 1..19
    /\ \A i \in 1..19 : 0 <= r.factores[i] /\ r.factores[i] <= Decimal(1, 0)
    /\ SumaVentana(r.factores, 8, 19) <= Decimal(1, 0)

\* the documents the step added or changed
Escritos == {id \in 1..Len(datos') : id > Len(datos) \/ datos'[id] # datos[id]}

\* C1 (as claimed): a crear_calificacion call that passed validation and
\* client resolution while an active record of the official channel existed
\* for the same client, date and tax type does not succeed: after a
\* successful call, the new record has no such counterpart.
C1_Original ==
    (result.op = "crear" /\ result.success) =>
        ~\E j \in Ids, p \in DOMAIN usuarios :
            /\ j # result.id
            /\ ~datos[j].esLocal
            /\ datos[j].activo
            /\ MismaClave(datos[j], datos[result.id])
            /\ RegistroDeCliente(datos[j], p)
            /\ RegistroDeCliente(datos[result.id], p)

\* C2: import_data adds no local record and leaves every local record as
\* it was, also one with the key of an imported row.
C2_ImportKeepsLocal ==
    [][result'.op = "importar" =>
          /\ Len(datos') >= Len(datos)
          /\ \A id \in Ids : datos[id].esLocal => datos'[id] = datos[id]
          /\ \A id \in (Len(datos) + 1)..Len(datos') : ~datos'[id].esLocal]_vars

\* an import wrote a record with the client, date and tax type of a local
\* record that was there before
C2_Witness ==
    /\ result.op = "importar"
    /\ result.created + result.updated > 0
    /\ \E i \in Ids, j \in Ids, p \in DOMAIN usuarios :
          /\ datos[i].esLocal /\ ~datos[j].esLocal
          /\ MismaClave(datos[i], datos[j])
          /\ RegistroDeCliente(datos[i], p) /\ RegistroDeCliente(datos[j], p)
          /\ datos[j].fechaModificacion > datos[i].fechaModificacion

\* C3 (as claimed): no two records of the official channel have the same
\* clienteId, fechaDeclaracion and tipoImpuesto.
C3_Original ==
    \A i \in Ids, j \in Ids :
        (i # j /\ ~datos[i].esLocal /\ ~datos[j].esLocal
         /\ datos[i].clienteId = datos[j].clienteId)
        => ~MismaClave(datos[i], datos[j])

\* C4: update and delete of an existing record are rejected for lack of
\* permission exactly when the caller is not an administrator and the
\* record is not a local record of the caller; a rejected call leaves the
\* store as it was.
C4_Autorizacion ==
    [][\A id \in Ids, a \in Actores :
          LET permitido == \/ a[2] = "administrador"
                           \/ /\ datos[id].esLocal
                              /\ datos[id].propietarioRegistroId = a[1]
              rechazado == result'.motivo \in {"bolsa", "permiso"}
              decision == /\ rechazado <=> ~permitido
                          /\ ~permitido => datos' = datos
          IN  /\ \A d \in DatosActualizar :
                    (/\ result'.op = "actualizar"
                     /\ result'.id = id
                     /\ actualizar_calificacion(id, d, a[1], a[2], "ninguna"))
                    => decision
              /\ (/\ result'.op = "eliminar"
                  /\ result'.id = id
                  /\ eliminar_calificacion(id, a[1], a[2], "ninguna"))
                 => decision]_vars

\* a caller who is not an administrator was rejected on a record of the
\* official channel that names this caller as its owner
C4_Witness ==
    /\ result.op \in {"actualizar", "eliminar"}
    /\ result.motivo = "bolsa"
    /\ \E id \in Ids : ~datos[id].esLocal /\ datos[id].propietarioRegistroId = "a1"

\* C5 (as claimed): a record with activo = FALSE keeps activo = FALSE.
C5_Original ==
    [][\A id \in Ids : ~datos[id].activo => ~datos'[id].activo]_vars

\* C6: a successful eliminar_calificacion sets activo to FALSE and changes
\* nothing but activo and fechaEliminacion of its target; no step removes a
\* document.
C6_SoftDelete ==
    [][/\ Len(datos') >= Len(datos)
       /\ \A id \in Ids, a \in Actores :
             (/\ result'.op = "eliminar"
              /\ result'.success
              /\ result'.id = id
              /\ eliminar_calificacion(id, a[1], a[2], "ninguna")) =>
                 /\ Len(datos') = Len(datos)
                 /\ \A j \in Ids : j # id => datos'[j] = datos[j]
                 /\ ~datos'[id].activo
                 /\ \A k \in DOMAIN datos[id] \ {"activo", "fechaEliminacion"} :
                       datos'[id][k] = datos[id][k]]_vars

\* a delete succeeded: its target is inactive, with the time of the delete
C6_Witness ==
    /\ result.op = "eliminar"
    /\ result.success
    /\ \E id \in Ids : ~datos[id].activo /\ datos[id].fechaEliminacion = now - 1

C8_Original ==
    result.op = "importar" =>
        LET df == carga.df
            sin_cliente == {k \in 1..Len(df) : ~EsCliente(df[k].cliente_rut)}
        IN  /\ \A k \in sin_cliente :
                  Cardinality({j \in 1..Len(result.errors) :
                                  result.errors[j].fila = k + 1}) = 1
            /\ result.created + result.updated <= Len(df) - Cardinality(sin_cliente)

\* C9: import_data visits every row: created + updated + len(errors) is the
\* number of rows; the rows that raise are exactly the rows with an entry
\* in errors, one entry each, numbered index + 2; the others are written;
\* success holds as soon as one row is written.
C9_Conteo ==
    result.op = "importar" =>
        LET df == carga.df
            n == Len(df)
            lanzan == {k \in 1..n : ~df[k].numerico \/ carga.fallas[k] = "escritura"}
        IN  /\ result.created + result.updated + Len(result.errors) = n
            /\ Len(result.errors) = Cardinality(lanzan)
            /\ \A k \in lanzan :
                  Cardinality({j \in 1..Len(result.errors) :
                                  result.errors[j].fila = k + 1}) = 1
            /\ result.created + result.updated = n - Cardinality(lanzan)
            /\ Cardinality(lanzan) < n => result.success

\* the first row of a table raised and the row after it was written
C9_Witness ==
    /\ result.op = "importar"
    /\ Len(carga.df) = 2
    /\ ~carga.df[1].numerico \/ carga.fallas[1] = "escritura"
    /\ result.created + result.updated = 1
    /\ Len(result.errors) = 1
    /\ result.success

\* C10 (as claimed): crear_calificacion succeeds only for the rut of a party
\* with rol "cliente", and the parties collection stays as it was.
C10_Original ==
    /\ usuarios = UsuariosIniciales
    /\ (result.op = "crear" /\ result.success) =>
          \E p \in DOMAIN usuarios :
              /\ usuarios[p].rol = "cliente"
              /\ datos[result.id].clienteId = PyStr(<<p>>)

C14_Exito ==
    result.op = "importar" =>
        /\ result.success <=>
               (Len(result.errors) = 0 \/ result.created + result.updated > 0)
        /\ ~result.success <=>
               (Len(result.errors) >= 1 /\ result.created + result.updated = 0)
        /\ Len(carga.df) = 0 =>
               (result.success /\ result.created = 0 /\ result.updated = 0)

\* an import in which one row failed and another was written, so that the
\* flag is TRUE with a non-empty errors
C14_Witness ==
    /\ result.op = "importar"
    /\ Len(result.errors) = 1
    /\ result.created + result.updated = 1
    /\ result.success

\* C15 (as claimed): the callback is called once per row, for row k after row
\* k was processed, with non-decreasing integers in 0..100, the last 100.
C15_Original ==
    (result.op = "importar" /\ Len(carga.df) >= 1) =>
        LET p == carga.progreso
        IN  /\ Len(p) = Len(carga.df)
            /\ \A k \in 1..Len(p) :
                  /\ p[k].fila = k - 1
                  /\ p[k].procesadas >= k
                  /\ p[k].valor \in 0..100
                  /\ k > 1 => p[k - 1].valor <= p[k].valor
            /\ p[Len(p)].valor = 100

C17_Original ==
    [][(datos' # datos /\ result'.op \in {"crear", "actualizar", "eliminar"})
          => result'.success]_vars

\* C20 (as claimed): a form with valid fields and a factor list of a length
\* other than 19 is rejected with the count error and nothing is written.
C20_Original ==
    [][\A d \in DatosLongitud :
          /\ (result'.op = "crear" /\ crear_calificacion(d, "a1", "ninguna"))
                => (result'.motivo = "num_factores" /\ datos' = datos)
          /\ (/\ result'.op = "actualizar"
              /\ result'.motivo \notin {"no_encontrada", "bolsa", "permiso"}
              /\ \E a \in Actores :
                     actualizar_calificacion(result'.id, d, a[1], a[2], "ninguna"))
                => (result'.motivo = "num_factores" /\ datos' = datos)]_vars

\* the amounts a record of the store holds, in cents
MontosGuardados(r) == {EnCentavos(r.montoDeclarado)}

\* C12 (as claimed): the record a successful crear_calificacion wrote for the
\* form holds the amount adjusted by the cascade of the selected subsidies
\* and holds every applied subsidy as a snapshot dict, not as a reference.
C12_Original ==
    [][(result'.op = "crear" /\ result'.success) =>
          LET r == datos'[result'.id]
              ap == r.subsidiosAplicados
              ids == [i \in 1..Len(ap) |-> ap[i].s[1]]
          IN  /\ \A i \in 1..Len(ap) : ap[i].t = "dict"
              /\ Cascada(EnCentavos(r.montoDeclarado), ids, subsidios)
                    \in MontosGuardados(r)]_vars

\* the amounts within half a cent of monto * (1 - vp)
Round2(monto, vp) ==
    LET exacto == monto * (ESCALA - vp)
        q == exacto \div ESCALA
    IN  {r \in (q - 1)..(q + 1) :
            /\ 2 * (r * ESCALA - exacto) <= ESCALA
            /\ 2 * (exacto - r * ESCALA) <= ESCALA}

\* the results of the left-to-right fold over ids, an id without row in the
\* ledger leaving the running amount as it is
RECURSIVE Pliegue(_, _)
Pliegue(montos, ids) ==
    IF ids = <<>> THEN montos
    ELSE IF ids[1] \notin DOMAIN subsidios THEN Pliegue(montos, Tail(ids))
    ELSE Pliegue(UNION {Round2(m, subsidios[ids[1]].valor_porcentual) : m \in montos},
                 Tail(ids))

\* C13: the amount the form shows is the left-to-right fold
\* amount := round2(amount * (1 - percentage_i)) over the selected ids in list
\* order, ids without row in the ledger being skipped; two subsidies of 10%
\* on 1000.00 give 810.00.
C13_Cascada ==
    result.op = "preview" =>
        /\ result.ajustado \in Pliegue({result.monto}, result.selected_ids)
        /\ (/\ result.monto = 100000
            /\ Len(result.selected_ids) = 2
            /\ \A i \in 1..2 :
                  /\ result.selected_ids[i] \in DOMAIN subsidios
                  /\ subsidios[result.selected_ids[i]].valor_porcentual = 1000)
              => result.ajustado = 81000

\* the preview of 1000.00 with two different subsidies of 10% selected
C13_Witness ==
    /\ result.op = "preview"
    /\ result.monto = 100000
    /\ Len(result.selected_ids) = 2
    /\ result.selected_ids[1] # result.selected_ids[2]
    /\ \A i \in 1..2 :
          /\ result.selected_ids[i] \in DOMAIN subsidios
          /\ subsidios[result.selected_ids[i]].valor_porcentual = 1000
    /\ result.ajustado = 81000

\* C18 (as claimed): an import_from_csv call during which a call raised
\* leaves the table as it was, and every row is counted as added, updated or
\* in errors.
C18_Original ==
    [][result'.op = "import_from_csv" =>
          /\ result'.motivo # "ok" => subsidios' = subsidios
          /\ result'.motivo = "ok" =>
                result'.stats.rows = result'.stats.added + result'.stats.updated
                                     + result'.stats.errors]_vars

\* C19 (as claimed): every row of the table holds a percentage in [0, 1].
C19_Original ==
    \A sid \in DOMAIN subsidios :
        /\ 0 <= subsidios[sid].valor_porcentual
        /\ subsidios[sid].valor_porcentual <= ESCALA

\* C21 (as claimed): validate_factor_sum(factors, 8, 19) rejects a dict of
\* factors of [0, 1] exactly when the exact sum of factor_8..factor_19 is
\* greater than 1.0.
C21_Original ==
    result.op = "validate_factor_sum" =>
        (~result.success <=>
            SumaVentana(result.factors, FACTOR_SUM_START, FACTOR_SUM_END)
                > Decimal(1, 0))

\* the check character of a body of digits: the digits from the right times
\* the weights 2, 3, 4, 5, 6, 7, 2, 3, ..., summed; 11 minus the sum modulo 11
RECURSIVE SumaPesos(_, _)
SumaPesos(cuerpo, j) ==
    IF j > Len(cuerpo) THEN 0
    ELSE (CHOOSE n \in 0..9 : Digitos[n + 1] = cuerpo[Len(cuerpo) + 1 - j])
            * (2 + ((j - 1) % 6))
         + SumaPesos(cuerpo, j + 1)

CaracterVerificador(cuerpo) ==
    LET v == 11 - (SumaPesos(cuerpo, 1) % 11)
    IN  CASE v = 11 -> "0" [] v = 10 -> "K" [] OTHER -> Digitos[v + 1]

\* C22: validate_rut accepts exactly the texts that, without "." and "-" and
\* in upper case, are 7 or 8 digits followed by their check character; of
\* the characters that can follow such a body exactly one is accepted.
C22_Rut ==
    result.op = "validate_rut" =>
        LET limpio == SelectSeq(result.rut, LAMBDA c : c \notin {".", "-"})
            cuerpo == SubSeq(limpio, 1, Len(limpio) - 1)
            ultimo == IF limpio[Len(limpio)] = "k" THEN "K" ELSE limpio[Len(limpio)]
            digitos == \A i \in 1..Len(cuerpo) : \E n \in 1..10 : Digitos[n] = cuerpo[i]
            aceptable == /\ Len(limpio) >= 2
                         /\ Len(cuerpo) \in {7, 8}
                         /\ digitos
        IN  /\ result.success <=>
                  (aceptable /\ ultimo = CaracterVerificador(cuerpo))
            /\ aceptable =>
                  Cardinality({c \in {"0", "1", "2", "3", "4", "5", "6", "7",
                                      "8", "9", "K", "X"} :
                                  validate_rut(cuerpo \o <<c>>).ok}) = 1

\* the rut 12345678-5 was validated and accepted
C22_Witness ==
    /\ result.op = "validate_rut"
    /\ result.rut = RUT_CLIENTE
    /\ result.success

\* C23 (as claimed): every record import_data writes holds as clienteId the
\* value crear_calificacion resolves for the rut of its row, and a successful
\* crear_calificacion leaves no active record of the official channel with
\* the key and the client of the new record.
C23_Original ==
    [][/\ result'.op = "importar" =>
             \A id \in Escritos :
                 \E k \in 1..Len(carga'.df) :
                     /\ datos'[id].clienteId =
                           _validate_cliente(carga'.df[k].cliente_rut, FALSE).e[1]
                     /\ datos'[id].fechaDeclaracion =
                           strftime(carga'.df[k].fecha_declaracion)
                     /\ datos'[id].tipoImpuesto = carga'.df[k].tipo_impuesto
       /\ (result'.op = "crear" /\ result'.success) =>
             ~\E j \in Ids, p \in DOMAIN usuarios :
                 /\ ~datos[j].esLocal /\ datos[j].activo
                 /\ MismaClave(datos[j], datos'[result'.id])
                 /\ RegistroDeCliente(datos[j], p)
                 /\ RegistroDeCliente(datos'[result'.id], p)]_vars

\* C24 (as claimed): a crear_calificacion call whose conflict query raises
\* returns a failure and writes nothing, and an import_data call reports a
\* row whose search query raises as an error and writes nothing for it.
C24_Original ==
    [][/\ (/\ result'.op = "crear"
           /\ \E d \in DatosCrear : crear_calificacion(d, "a1", "conflicto"))
             => (~result'.success /\ datos' = datos)
       /\ (/\ result'.op = "importar"
           /\ \E df \in TablasDe(FilasServicio, 1) \ {<<>>} :
                 import_data(df, "a1", <<"busqueda">>, FALSE))
             => (Len(result'.errors) = 1 /\ datos' = datos)]_vars

\* the records of the official channel with the client, date and tax type
\* of the row
OficialesDeFila(docs, row) ==
    {id \in 1..Len(docs) :
        /\ ~docs[id].esLocal
        /\ docs[id].fechaDeclaracion = strftime(row.fecha_declaracion)
        /\ docs[id].tipoImpuesto = row.tipo_impuesto
        /\ \E p \in DOMAIN usuarios :
              usuarios[p].rut = row.cliente_rut /\ RegistroDeCliente(docs[id], p)}

\* two import_data runs of a row with the same client, date and tax type
\* that ran at once have left at most one record of the official channel
\* with that key
UnRegistroPorClave ==
    (/\ Len(hilos) = 2
     /\ hilos[1].op = "importar" /\ hilos[2].op = "importar"
     /\ hilos[1].pc = "fin" /\ hilos[2].pc = "fin"
     /\ hilos[1].entrada.cliente_rut = hilos[2].entrada.cliente_rut
     /\ hilos[1].entrada.fecha_declaracion = hilos[2].entrada.fecha_declaracion
     /\ hilos[1].entrada.tipo_impuesto = hilos[2].entrada.tipo_impuesto)
        => Cardinality(OficialesDeFila(datos, hilos[1].entrada)) <= 1

\* C25 (as claimed): when crear_calificacion runs next to import_data, with
\* every store query and every store write one step, the step that writes
\* the local record finds no active record of the official channel with the
\* client, date and tax type of the form; and two import_data runs of the
\* same key that ran at once leave at most one record of the official
\* channel with that key.
C25_Original ==
    [][/\ \A i \in DOMAIN hilos :
            (/\ hilos[i].op = "crear"
             /\ hilos[i].pc = "escritura"
             /\ hilos'[i].pc = "fin")
               => ~\E id \in Ids, p \in DOMAIN usuarios :
                     /\ ~datos[id].esLocal
                     /\ datos[id].activo
                     /\ MismaClave(datos[id], datos'[Len(datos')])
                     /\ usuarios[p].rut = hilos[i].entrada.cliente_id
                     /\ RegistroDeCliente(datos[id], p)
       /\ UnRegistroPorClave']_vars

\* C26 (as claimed): an actualizar_calificacion call that gives a local
\* record the date and tax type of an active record of the official channel
\* of the same client is rejected: no successful call leaves its local
\* target with such a counterpart.
C26_Original ==
    [][(/\ result'.op = "actualizar"
        /\ result'.success
        /\ datos[result'.id].esLocal)
          => ~\E j \in Ids, p \in DOMAIN usuarios :
                /\ j # result'.id
                /\ ~datos[j].esLocal
                /\ datos[j].activo
                /\ MismaClave(datos[j], datos'[result'.id])
                /\ RegistroDeCliente(datos[j], p)
                /\ RegistroDeCliente(datos[result'.id], p)]_vars

\* C27 (as claimed): a record with activo = False is frozen: every
\* actualizar_calificacion and eliminar_calificacion call on its id, by any
\* role, is rejected and leaves all its fields as they were.
C27_Original ==
    [][(/\ result'.op \in {"actualizar", "eliminar"}
        /\ result'.id \in Ids
        /\ ~datos[result'.id].activo)
          => (~result'.success /\ datos' = datos)]_vars

CamposActualizados ==
    {"fechaDeclaracion", "tipoImpuesto", "pais", "montoDeclarado", "factores",
     "subsidiosAplicados", "fechaModificacion"}

\* C28: a successful actualizar_calificacion call changes nothing but
\* fechaDeclaracion, tipoImpuesto, pais, montoDeclarado, factores,
\* subsidiosAplicados and fechaModificacion of its target: the other fields
\* of the target and every other record stay as they were, also when an
\* administrador edits a record of the official channel; a call rejected for
\* a missing record, for authorization or for validation changes nothing.
C28_Marco ==
    [][result'.op = "actualizar" =>
          IF result'.success
          THEN /\ result'.id \in Ids
               /\ Len(datos') = Len(datos)
               /\ \A id \in Ids \ {result'.id} : datos'[id] = datos[id]
               /\ DOMAIN datos'[result'.id] = DOMAIN datos[result'.id]
               /\ \A k \in DOMAIN datos[result'.id] \ CamposActualizados :
                     datos'[result'.id][k] = datos[result'.id][k]
          ELSE datos' = datos]_vars

\* an administrador has updated a record of the official channel, next to
\* another record
C28_Witness ==
    /\ result.op = "actualizar"
    /\ result.success
    /\ Len(datos) >= 2
    /\ ~datos[result.id].esLocal
    /\ datos[result.id].fechaModificacion > datos[result.id].fechaCreacion

ClaveFila(row) == <<row.cliente_rut, row.fecha_declaracion, row.tipo_impuesto>>

ClavesDistintas(df) ==
    \A i, j \in 1..Len(df) : i # j => ClaveFila(df[i]) # ClaveFila(df[j])

\* the second of two import_data runs of the same table in sequence creates
\* nothing, updates every row and leaves the number of records as it was;
\* the run of a table of two rows of one key that the store does not have
\* creates one record and updates it
Idempotente(filas) ==
    LET df == carga'.df
    IN  /\ (/\ result.op = "importar"
            /\ carga.df = df
            /\ df \in filas
            /\ ClavesDistintas(df)
            /\ \A k \in 1..Len(df) : EsCliente(df[k].cliente_rut))
              => /\ result'.created = 0
                 /\ result'.updated = Len(df)
                 /\ Len(datos') = Len(datos)
        /\ (/\ df \in filas
            /\ Len(df) = 2
            /\ ClaveFila(df[1]) = ClaveFila(df[2])
            /\ EsCliente(df[1].cliente_rut)
            /\ OficialesDeFila(datos, df[1]) = {})
              => /\ result'.created = 1
                 /\ result'.updated = 1
                 /\ Len(datos') = Len(datos) + 1

C30_Original ==
    result.op = "validar_filtros" =>
        /\ result.filtros.tipo_impuesto \in TIPOS_IMPUESTO_VALIDOS
              => /\ result.motivo # "tipo_impuesto"
                 /\ result.filtros.tipo_impuesto \in combo_tipo_impuesto
        /\ result.filtros.pais \in PAISES_VALIDOS
              => /\ result.motivo # "pais"
                 /\ result.filtros.pais \in combo_pais

====
